---- MODULE Spec2Model ----
(***************************************************************************)
(* External merge sort of src/4.py (class ExternalMergeSort).              *)
(*                                                                         *)
(* A file is a sequence of characters; the characters are 0 ("\n"),        *)
(* 1 ("a") and 2 ("b"), ordered as Python orders their code points.  The   *)
(* file system is a directory (name -> inode) and the inodes' contents, so *)
(* that open("w") truncates, os.remove unlinks and an open handle keeps    *)
(* reading the inode it was opened on.  Every call of sort_file is a       *)
(* process p with its own locals; the directory is shared (the temporary   *)
(* names temp_<n>.txt are relative to the working directory).              *)
(***************************************************************************)
EXTENDS Integers, Sequences, FiniteSets, TLC

\* ---------------------------------------------------------------- bounds
MaxInputLen == 5
MaxChunkSize == 3
MaxConcLen == 2

\* ------------------------------------------------------------ characters
NL == 0
Chars == {0, 1, 2}

ChunkSizes == -1 .. MaxChunkSize

FilesUpTo(n) == UNION {[1 .. k -> Chars] : k \in 0 .. n}

\* The contents a destination holds before the call, when it exists.
OldOutput == <<2, NL>>

\* --------------------------------------------------------- pure helpers
\* str.__lt__: code-point lexicographic order, a proper prefix is smaller.
RECURSIVE StrLess(_, _)
StrLess(a, b) ==
    IF b = <<>> THEN FALSE
    ELSE IF a = <<>> THEN TRUE
    ELSE IF Head(a) # Head(b) THEN Head(a) < Head(b)
    ELSE StrLess(Tail(a), Tail(b))

StrLeq(a, b) == a = b \/ StrLess(a, b)

\* The entries pushed as (idx, value): ordered by file index first.
TupleLess_IdxFirst(x, y) == x[2] < y[2] \/ (x[2] = y[2] /\ StrLess(x[1], y[1]))

\* Ties on the value broken towards the larger file index.
TupleLess_TieRev(x, y) == StrLess(x[1], y[1]) \/ (x[1] = y[1] /\ x[2] > y[2])

\* Order of the heap entries (value, idx): tuple comparison.
TupleLess(x, y) == StrLess(x[1], y[1]) \/ (x[1] = y[1] /\ x[2] < y[2])

\* line.rstrip("\n"): drops every trailing newline.
RECURSIVE rstrip(_)
rstrip(s) ==
    IF s # <<>> /\ s[Len(s)] = NL THEN rstrip(SubSeq(s, 1, Len(s) - 1)) ELSE s

\* Index of the last character of the line that starts at index k <= Len(c).
RECURSIVE LineEnd(_, _)
LineEnd(c, k) == IF c[k] = NL \/ k = Len(c) THEN k ELSE LineEnd(c, k + 1)

\* f.readline() / next(f) at offset pos: the line with its terminator, or
\* the empty string at end of file.
readline(c, pos) ==
    IF pos >= Len(c) THEN <<>> ELSE SubSeq(c, pos + 1, LineEnd(c, pos + 1))

\* [line.rstrip("\n") for line in f]: the records of a file.
RECURSIVE ReadAll(_, _)
ReadAll(c, pos) ==
    IF pos >= Len(c) THEN <<>>
    ELSE LET l == readline(c, pos)
         IN  <<rstrip(l)>> \o ReadAll(c, pos + Len(l))

Records(c) == ReadAll(c, 0)

\* for item in chunk: tf.write(item + "\n")
RECURSIVE WriteItems(_)
WriteItems(items) ==
    IF items = <<>> THEN <<>>
    ELSE Head(items) \o <<NL>> \o WriteItems(Tail(items))

RECURSIVE Insert(_, _)
Insert(x, s) ==
    IF s = <<>> THEN <<x>>
    ELSE IF StrLess(x, Head(s)) THEN <<x>> \o s
    ELSE <<Head(s)>> \o Insert(x, Tail(s))

\* list.sort() on strings (stable, ascending).
RECURSIVE sort(_)
sort(s) ==
    IF s = <<>> THEN <<>>
    ELSE Insert(s[Len(s)], sort(SubSeq(s, 1, Len(s) - 1)))

\* heapq.heappush / heapq.heappop: the heap holds pairwise different
\* (value, idx) entries, heappop returns the least of them.
heappush(h, e) == h \cup {e}

HeapMin(h) == CHOOSE e \in h : \A o \in h : o = e \/ TupleLess(e, o)

heappop(h) == h \ {HeapMin(h)}

\* ---------------------------------------------------------------- names
InputName(p) == "input_" \o ToString(p) \o ".txt"
OutputName(p) == "sorted_" \o ToString(p) \o ".txt"
TempName(n) == "temp_" \o ToString(n) \o ".txt"

NoHandle == [ino |-> -1, pos |-> 0]

\* ---------------------------------------------------------------- state
VARIABLES
    dir,          \* the working directory: file name -> inode
    data,         \* inode -> contents
    dir0,         \* the directory when the calls began (never changes)
    data0,        \* the contents when the calls began (never changes)
    pc,           \* per call: the statement it is at
    chunk_size,   \* per sorter: self.chunk_size
    chunk,        \* per call: the buffer of _create_sorted_chunks
    file_counter, \* per call: file_counter of _create_sorted_chunks
    temp_files,   \* per call: the list of temporary file names
    f,            \* per call: the read handle on the input file
    files,        \* per call: the read handles of _merge_chunks
    heap,         \* per call: the heap of _merge_chunks
    i,            \* per call: index of the running for loop
    out,          \* per call: the write handle on the output file
    err,          \* per call: the exception that left sort_file, if any
    aut           \* the automaton of src/1.py under test, its input and result

vars == <<dir, data, dir0, data0, aut, pc, chunk_size, chunk, file_counter,
          temp_files, f, files, heap, i, out, err>>

\* The state of the sorter alone.
sortvars == <<dir, data, dir0, data0, pc, chunk_size, chunk, file_counter,
              temp_files, f, files, heap, i, out, err>>

\* No automaton is under test.
NoAut == [kind |-> "none"]

fsvars == <<dir, data>>

Procs == DOMAIN pc

\* ---------------------------------------------------------- file system
Exists(name) == name \in DOMAIN dir

Content(name) == data[dir[name]]

\* The inode a newly created file gets: the first free one.
NewIno ==
    CHOOSE n \in 0 .. Cardinality(DOMAIN data) :
        n \notin DOMAIN data /\ \A m \in 0 .. n - 1 : m \in DOMAIN data

\* open(name, "w"): the inode of an existing name is truncated and
\* reused, a missing name gets a new inode.
InoForWrite(name) == IF Exists(name) THEN dir[name] ELSE NewIno

DirAfterCreate(name) == IF Exists(name) THEN dir ELSE (name :> NewIno) @@ dir

\* os.remove(name)
DirAfterRemove(name) == [n \in DOMAIN dir \ {name} |-> dir[n]]

\* The temporary files in the working directory: every file but the
\* inputs and the destinations of the calls.
TempFilesOnDisk ==
    DOMAIN dir \ ({InputName(p) : p \in Procs} \cup {OutputName(p) : p \in Procs})

\* ----------------------------------------------------------------- Init
InputOpts(n) ==
    {[ex |-> FALSE, c |-> <<>>]} \cup {[ex |-> TRUE, c |-> c] : c \in FilesUpTo(n)}

OutputOpts == {[ex |-> FALSE, c |-> <<>>], [ex |-> TRUE, c |-> OldOutput]}

\* The files present before the calls: process p's input is inode 2p-2,
\* its destination inode 2p-1.
InitDir(P, inp, outp) ==
    LET names == {InputName(p) : p \in {q \in P : inp[q].ex}}
                 \cup {OutputName(p) : p \in {q \in P : outp[q].ex}}
        owner(n) == CHOOSE p \in P : n \in {InputName(p), OutputName(p)}
    IN  [n \in names |->
            IF n = InputName(owner(n)) THEN 2 * owner(n) - 2 ELSE 2 * owner(n) - 1]

InitData(P, inp, outp) ==
    LET inos == {2 * p - 2 : p \in {q \in P : inp[q].ex}}
                \cup {2 * p - 1 : p \in {q \in P : outp[q].ex}}
    IN  [n \in inos |->
            IF n % 2 = 0 THEN inp[(n + 2) \div 2].c ELSE outp[(n + 1) \div 2].c]

InitLocals(P, sizes) ==
    /\ pc = [p \in P |-> "idle"]
    /\ chunk_size \in [P -> sizes]
    /\ chunk = [p \in P |-> <<>>]
    /\ file_counter = [p \in P |-> 0]
    /\ temp_files = [p \in P |-> <<>>]
    /\ f = [p \in P |-> NoHandle]
    /\ files = [p \in P |-> <<>>]
    /\ heap = [p \in P |-> {}]
    /\ i = [p \in P |-> 0]
    /\ out = [p \in P |-> NoHandle]
    /\ err = [p \in P |-> "none"]

\* One call: sorter = ExternalMergeSort(chunk_size); sorter.sort_file(...)
Init ==
    /\ \E inp \in [{1} -> InputOpts(MaxInputLen)], outp \in [{1} -> OutputOpts] :
          /\ dir = InitDir({1}, inp, outp)
          /\ data = InitData({1}, inp, outp)
    /\ dir0 = dir
    /\ data0 = data
    /\ InitLocals({1}, ChunkSizes)
    /\ aut = NoAut

\* ------------------------------------------------- _create_sorted_chunks
\* sort_file calls _create_sorted_chunks: its locals are initialised.
sort_file(p) ==
    /\ pc[p] = "idle"
    /\ pc' = [pc EXCEPT ![p] = "open_input"]
    /\ chunk' = [chunk EXCEPT ![p] = <<>>]
    /\ file_counter' = [file_counter EXCEPT ![p] = 0]
    /\ temp_files' = [temp_files EXCEPT ![p] = <<>>]
    /\ UNCHANGED <<dir, data, dir0, data0, aut, chunk_size, f, files, heap, i, out, err>>

\* A missing input taken for an empty one (the error swallowed).
OpenInput_MissingAsEmpty(p) ==
    /\ pc[p] = "open_input"
    /\ IF Exists(InputName(p))
       THEN /\ f' = [f EXCEPT ![p] = [ino |-> dir[InputName(p)], pos |-> 0]]
            /\ pc' = [pc EXCEPT ![p] = "read"]
       ELSE /\ pc' = [pc EXCEPT ![p] = "open_chunks"]
            /\ f' = f
    /\ UNCHANGED <<dir, data, dir0, data0, aut, chunk_size, chunk, file_counter,
                   temp_files, files, heap, i, out, err>>

\* with open(input_file, "r") as f: FileNotFoundError when it is missing.
OpenInput(p) ==
    /\ pc[p] = "open_input"
    /\ IF Exists(InputName(p))
       THEN /\ f' = [f EXCEPT ![p] = [ino |-> dir[InputName(p)], pos |-> 0]]
            /\ pc' = [pc EXCEPT ![p] = "read"]
            /\ err' = err
       ELSE /\ pc' = [pc EXCEPT ![p] = "failed"]
            /\ err' = [err EXCEPT ![p] = "FileNotFoundError"]
            /\ f' = f
    /\ UNCHANGED <<dir, data, dir0, data0, aut, chunk_size, chunk, file_counter,
                   temp_files, files, heap, i, out>>

\* The test written with > : a buffer is flushed one record late.
ChunkFull_Late(buf, size) == Len(buf) > size

\* if len(chunk) >= self.chunk_size
ChunkFull(buf, size) == Len(buf) >= size

\* for line in f: chunk.append(line.rstrip("\n")), then the test of S5.
ReadLine(p) ==
    /\ pc[p] = "read"
    /\ f[p].pos < Len(data[f[p].ino])
    /\ LET line == readline(data[f[p].ino], f[p].pos)
       IN  /\ chunk' = [chunk EXCEPT ![p] = Append(@, rstrip(line))]
           /\ f' = [f EXCEPT ![p].pos = @ + Len(line)]
    /\ pc' = [pc EXCEPT ![p] = IF ChunkFull(chunk'[p], chunk_size[p]) THEN "flush" ELSE "read"]
    /\ UNCHANGED <<dir, data, dir0, data0, aut, chunk_size, file_counter,
                   temp_files, files, heap, i, out, err>>

\* The file written for the buffer: its name, and the directory and the
\* contents once `items` are in it.
WriteTemp(p, items) ==
    LET name == TempName(file_counter[p])
    IN  /\ data' = (InoForWrite(name) :> WriteItems(items)) @@ data
        /\ dir' = DirAfterCreate(name)

\* The flush without "chunk = []": the buffer keeps its records.
Flush_NoReset(p) ==
    /\ pc[p] = "flush"
    /\ WriteTemp(p, sort(chunk[p]))
    /\ temp_files' = [temp_files EXCEPT ![p] = Append(@, TempName(file_counter[p]))]
    /\ file_counter' = [file_counter EXCEPT ![p] = @ + 1]
    /\ pc' = [pc EXCEPT ![p] = "read"]
    /\ UNCHANGED <<dir0, data0, aut, chunk_size, chunk, f, files, heap, i, out, err>>

\* S6-S7: a full buffer is sorted and written to temp_<file_counter>.txt.
Flush(p) ==
    /\ pc[p] = "flush"
    /\ WriteTemp(p, sort(chunk[p]))
    /\ temp_files' = [temp_files EXCEPT ![p] = Append(@, TempName(file_counter[p]))]
    /\ chunk' = [chunk EXCEPT ![p] = <<>>]
    /\ file_counter' = [file_counter EXCEPT ![p] = @ + 1]
    /\ pc' = [pc EXCEPT ![p] = "read"]
    /\ UNCHANGED <<dir0, data0, aut, chunk_size, f, files, heap, i, out, err>>

\* The last buffer flushed only when full: a short tail is dropped.
LastChunkPending_OnlyFull(p) == Len(chunk[p]) >= chunk_size[p]

\* The last buffer flushed without the test: an empty chunk is written.
LastChunkPending_Always(p) == TRUE

\* if chunk: (after the loop)
LastChunkPending(p) == chunk[p] # <<>>

\* The for loop ends at end of file; the with block closes f.
EndOfInput(p) ==
    /\ pc[p] = "read"
    /\ f[p].pos >= Len(data[f[p].ino])
    /\ f' = [f EXCEPT ![p] = NoHandle]
    /\ pc' = [pc EXCEPT ![p] = IF LastChunkPending(p) THEN "final_flush" ELSE "open_chunks"]
    /\ i' = [i EXCEPT ![p] = 0]
    /\ UNCHANGED <<dir, data, dir0, data0, aut, chunk_size, chunk, file_counter,
                   temp_files, files, heap, out, err>>

\* S8-S9: the last, possibly short, buffer; _create_sorted_chunks returns
\* and sort_file calls _merge_chunks.
FinalFlush(p) ==
    /\ pc[p] = "final_flush"
    /\ WriteTemp(p, sort(chunk[p]))
    /\ temp_files' = [temp_files EXCEPT ![p] = Append(@, TempName(file_counter[p]))]
    /\ pc' = [pc EXCEPT ![p] = "open_chunks"]
    /\ i' = [i EXCEPT ![p] = 0]
    /\ UNCHANGED <<dir0, data0, aut, chunk_size, chunk, file_counter, f, files,
                   heap, out, err>>

\* A write to a temporary file raises OSError (no space left, permission):
\* the file exists with the items written so far, the exception leaves
\* sort_file, nothing catches it.
FlushError(p) ==
    /\ pc[p] \in {"flush", "final_flush"}
    /\ \E k \in 0 .. Len(chunk[p]) - 1 : WriteTemp(p, SubSeq(sort(chunk[p]), 1, k))
    /\ f' = [f EXCEPT ![p] = NoHandle]
    /\ pc' = [pc EXCEPT ![p] = "failed"]
    /\ err' = [err EXCEPT ![p] = "OSError"]
    /\ UNCHANGED <<dir0, data0, aut, chunk_size, chunk, file_counter, temp_files,
                   files, heap, i, out>>

\* --------------------------------------------------------- _merge_chunks
\* S11: files = [open(name, "r") ...], one open per step;
\* FileNotFoundError when the name is missing.
OpenChunk(p) ==
    /\ pc[p] = "open_chunks"
    /\ i[p] < Len(temp_files[p])
    /\ LET name == temp_files[p][i[p] + 1]
       IN  IF Exists(name)
           THEN /\ files' = [files EXCEPT ![p] = Append(@, [ino |-> dir[name], pos |-> 0])]
                /\ i' = [i EXCEPT ![p] = @ + 1]
                /\ UNCHANGED <<pc, err>>
           ELSE /\ pc' = [pc EXCEPT ![p] = "failed"]
                /\ err' = [err EXCEPT ![p] = "FileNotFoundError"]
                /\ UNCHANGED <<files, i>>
    /\ UNCHANGED <<dir, data, dir0, data0, aut, chunk_size, chunk, file_counter,
                   temp_files, f, heap, out>>

\* The list of handles taken for complete one file early.
OpenChunksDone_Early(p) ==
    /\ pc[p] = "open_chunks"
    /\ i[p] >= Len(temp_files[p]) - 1
    /\ heap' = [heap EXCEPT ![p] = {}]
    /\ i' = [i EXCEPT ![p] = 0]
    /\ pc' = [pc EXCEPT ![p] = "prime"]
    /\ UNCHANGED <<dir, data, dir0, data0, aut, chunk_size, chunk, file_counter,
                   temp_files, f, files, out, err>>

\* heap = []
OpenChunksDone(p) ==
    /\ pc[p] = "open_chunks"
    /\ i[p] = Len(temp_files[p])
    /\ heap' = [heap EXCEPT ![p] = {}]
    /\ i' = [i EXCEPT ![p] = 0]
    /\ pc' = [pc EXCEPT ![p] = "prime"]
    /\ UNCHANGED <<dir, data, dir0, data0, aut, chunk_size, chunk, file_counter,
                   temp_files, f, files, out, err>>

\* Opening a chunk raises OSError (unreadable, too many open files).
OpenChunkError(p) ==
    /\ pc[p] = "open_chunks"
    /\ i[p] < Len(temp_files[p])
    /\ pc' = [pc EXCEPT ![p] = "failed"]
    /\ err' = [err EXCEPT ![p] = "OSError"]
    /\ UNCHANGED <<dir, data, dir0, data0, aut, chunk_size, chunk, file_counter,
                   temp_files, f, files, heap, i, out>>

\* The line read but never pushed: the rest of the file is lost.
ReadAndPush_NoPush(p, h, idx) ==
    LET fh == files[p][idx + 1]
        line == readline(data[fh.ino], fh.pos)
    IN  /\ files' = [files EXCEPT ![p][idx + 1].pos = @ + Len(line)]
        /\ heap' = [heap EXCEPT ![p] = h]

\* The handles and the heap after files[idx].readline() and
\* "if line: heappush(heap, (line.rstrip("\n"), idx))"; idx counts from 0.
ReadAndPush(p, h, idx) ==
    LET fh == files[p][idx + 1]
        line == readline(data[fh.ino], fh.pos)
    IN  /\ files' = [files EXCEPT ![p][idx + 1].pos = @ + Len(line)]
        /\ heap' = [heap EXCEPT ![p] =
                       IF line # <<>> THEN heappush(h, <<rstrip(line), idx>>) ELSE h]

\* S12: the first line of every file goes to the heap.
PrimeHeap(p) ==
    /\ pc[p] = "prime"
    /\ i[p] < Len(files[p])
    /\ ReadAndPush(p, heap[p], i[p])
    /\ i' = [i EXCEPT ![p] = @ + 1]
    /\ UNCHANGED <<dir, data, dir0, data0, aut, pc, chunk_size, chunk, file_counter,
                   temp_files, f, out, err>>

PrimeDone(p) ==
    /\ pc[p] = "prime"
    /\ i[p] = Len(files[p])
    /\ pc' = [pc EXCEPT ![p] = "open_output"]
    /\ UNCHANGED <<dir, data, dir0, data0, aut, chunk_size, chunk, file_counter,
                   temp_files, f, files, heap, i, out, err>>

\* with open(output_file, "w") as out: creates or truncates the destination.
OpenOutput(p) ==
    /\ pc[p] = "open_output"
    /\ out' = [out EXCEPT ![p] = [ino |-> InoForWrite(OutputName(p)), pos |-> 0]]
    /\ data' = (InoForWrite(OutputName(p)) :> <<>>) @@ data
    /\ dir' = DirAfterCreate(OutputName(p))
    /\ pc' = [pc EXCEPT ![p] = "merge"]
    /\ UNCHANGED <<dir0, data0, aut, chunk_size, chunk, file_counter, temp_files,
                   f, files, heap, i, err>>

\* Opening the destination raises OSError: it is not touched.
OpenOutputError(p) ==
    /\ pc[p] = "open_output"
    /\ pc' = [pc EXCEPT ![p] = "failed"]
    /\ err' = [err EXCEPT ![p] = "OSError"]
    /\ UNCHANGED <<dir, data, dir0, data0, aut, chunk_size, chunk, file_counter,
                   temp_files, f, files, heap, i, out>>

\* out.write(value + "\n")
WriteOut(p, value) ==
    data' = [data EXCEPT ![out[p].ino] = @ \o value \o <<NL>>]

\* An iteration that removes the chunk's file as soon as its readline
\* returns the empty string.
MergeStep_ReleaseOnExhaustion(p) ==
    /\ pc[p] = "merge"
    /\ heap[p] # {}
    /\ LET e == HeapMin(heap[p])
           fh == files[p][e[2] + 1]
       IN  /\ WriteOut(p, e[1])
           /\ ReadAndPush(p, heappop(heap[p]), e[2])
           /\ dir' = IF fh.pos >= Len(data[fh.ino])
                     THEN DirAfterRemove(temp_files[p][e[2] + 1])
                     ELSE dir
    /\ UNCHANGED <<dir0, data0, aut, pc, chunk_size, chunk, file_counter,
                   temp_files, f, i, out, err>>

\* S14-S15: one iteration of "while heap".
MergeStep(p) ==
    /\ pc[p] = "merge"
    /\ heap[p] # {}
    /\ LET e == HeapMin(heap[p])
       IN  /\ WriteOut(p, e[1])
           /\ ReadAndPush(p, heappop(heap[p]), e[2])
    /\ UNCHANGED <<dir, dir0, data0, aut, pc, chunk_size, chunk, file_counter,
                   temp_files, f, i, out, err>>

\* out.write raises OSError in the middle of the merge: what was written
\* stays in the destination, the with block closes it.
OutputWriteError(p) ==
    /\ pc[p] = "merge"
    /\ heap[p] # {}
    /\ heap' = [heap EXCEPT ![p] = heappop(@)]
    /\ out' = [out EXCEPT ![p] = NoHandle]
    /\ pc' = [pc EXCEPT ![p] = "failed"]
    /\ err' = [err EXCEPT ![p] = "OSError"]
    /\ UNCHANGED <<dir, data, dir0, data0, aut, chunk_size, chunk, file_counter,
                   temp_files, f, files, i>>

\* files[idx].readline() raises OSError (the chunk became unreadable):
\* the popped value is already written.
ChunkReadError(p) ==
    /\ pc[p] = "merge"
    /\ heap[p] # {}
    /\ WriteOut(p, HeapMin(heap[p])[1])
    /\ heap' = [heap EXCEPT ![p] = heappop(@)]
    /\ out' = [out EXCEPT ![p] = NoHandle]
    /\ pc' = [pc EXCEPT ![p] = "failed"]
    /\ err' = [err EXCEPT ![p] = "OSError"]
    /\ UNCHANGED <<dir, dir0, data0, aut, chunk_size, chunk, file_counter,
                   temp_files, f, files, i>>

\* The heap is empty: the with block closes out; S16: for f in files: f.close()
CloseFiles(p) ==
    /\ pc[p] = "merge"
    /\ heap[p] = {}
    /\ out' = [out EXCEPT ![p] = NoHandle]
    /\ files' = [files EXCEPT ![p] = <<>>]
    /\ i' = [i EXCEPT ![p] = 0]
    /\ pc' = [pc EXCEPT ![p] = "remove"]
    /\ UNCHANGED <<dir, data, dir0, data0, aut, chunk_size, chunk, file_counter,
                   temp_files, f, heap, err>>

\* The removal loop stops one name early.
ToRemove_SkipLast(p) == i[p] < Len(temp_files[p]) - 1

\* The names "for name in temp_files: os.remove(name)" has still to remove.
ToRemove(p) == i[p] < Len(temp_files[p])

\* os.remove(name), one per step; FileNotFoundError when it is missing.
RemoveTemp(p) ==
    /\ pc[p] = "remove"
    /\ ToRemove(p)
    /\ LET name == temp_files[p][i[p] + 1]
       IN  IF Exists(name)
           THEN /\ dir' = DirAfterRemove(name)
                /\ i' = [i EXCEPT ![p] = @ + 1]
                /\ UNCHANGED <<pc, err>>
           ELSE /\ pc' = [pc EXCEPT ![p] = "failed"]
                /\ err' = [err EXCEPT ![p] = "FileNotFoundError"]
                /\ UNCHANGED <<dir, i>>
    /\ UNCHANGED <<data, dir0, data0, aut, chunk_size, chunk, file_counter,
                   temp_files, f, files, heap, out>>

\* _merge_chunks and sort_file return.
Return(p) ==
    /\ pc[p] = "remove"
    /\ ~ToRemove(p)
    /\ pc' = [pc EXCEPT ![p] = "done"]
    /\ UNCHANGED <<dir, data, dir0, data0, aut, chunk_size, chunk, file_counter,
                   temp_files, f, files, heap, i, out, err>>

\* -------------------------------------------------------- specification
Next ==
    \/ \E p \in Procs : sort_file(p)
    \/ \E p \in Procs : OpenInput(p)
    \/ \E p \in Procs : ReadLine(p)
    \/ \E p \in Procs : Flush(p)
    \/ \E p \in Procs : EndOfInput(p)
    \/ \E p \in Procs : FinalFlush(p)
    \/ \E p \in Procs : OpenChunk(p)
    \/ \E p \in Procs : OpenChunksDone(p)
    \/ \E p \in Procs : PrimeHeap(p)
    \/ \E p \in Procs : PrimeDone(p)
    \/ \E p \in Procs : OpenOutput(p)
    \/ \E p \in Procs : MergeStep(p)
    \/ \E p \in Procs : CloseFiles(p)
    \/ \E p \in Procs : RemoveTemp(p)
    \/ \E p \in Procs : Return(p)
    \* the storage errors the environment can raise
    \/ \E p \in Procs : FlushError(p)
    \/ \E p \in Procs : OpenChunkError(p)
    \/ \E p \in Procs : OpenOutputError(p)
    \/ \E p \in Procs : OutputWriteError(p)
    \/ \E p \in Procs : ChunkReadError(p)

Spec == Init /\ [][Next]_vars

\* The states of one sort operation (Idle, Chunking, Merging, Done, Failed).
State(p) ==
    CASE pc[p] = "idle" -> "Idle"
      [] pc[p] \in {"open_input", "read", "flush", "final_flush"} -> "Chunking"
      [] pc[p] \in {"open_chunks", "prime", "open_output", "merge", "remove"} -> "Merging"
      [] pc[p] = "done" -> "Done"
      [] pc[p] = "failed" -> "Failed"

\* ------------------------------------------------- concurrent invocations
\* Two calls of sort_file at the same time in one working directory, each
\* on its own sorter, its own input and its own destination; no storage
\* error is raised by the environment.
InitConc ==
    /\ \E inp \in [{1, 2} -> InputOpts(MaxConcLen) \ {[ex |-> FALSE, c |-> <<>>]}] :
          /\ dir = InitDir({1, 2}, inp, [p \in {1, 2} |-> [ex |-> FALSE, c |-> <<>>]])
          /\ data = InitData({1, 2}, inp, [p \in {1, 2} |-> [ex |-> FALSE, c |-> <<>>]])
    /\ dir0 = dir
    /\ data0 = data
    /\ InitLocals({1, 2}, {1, 2})
    /\ aut = NoAut

NextConc ==
    \/ \E p \in Procs : sort_file(p)
    \/ \E p \in Procs : OpenInput(p)
    \/ \E p \in Procs : ReadLine(p)
    \/ \E p \in Procs : Flush(p)
    \/ \E p \in Procs : EndOfInput(p)
    \/ \E p \in Procs : FinalFlush(p)
    \/ \E p \in Procs : OpenChunk(p)
    \/ \E p \in Procs : OpenChunksDone(p)
    \/ \E p \in Procs : PrimeHeap(p)
    \/ \E p \in Procs : PrimeDone(p)
    \/ \E p \in Procs : OpenOutput(p)
    \/ \E p \in Procs : MergeStep(p)
    \/ \E p \in Procs : CloseFiles(p)
    \/ \E p \in Procs : RemoveTemp(p)
    \/ \E p \in Procs : Return(p)

SpecConc == InitConc /\ [][NextConc]_vars

\* ------------------------------------------------------------ properties
Range(q) == {q[k] : k \in 1 .. Len(q)}

IsSorted(q) == \A k \in 1 .. Len(q) - 1 : StrLeq(q[k], q[k + 1])

Count(q, r) == Cardinality({k \in 1 .. Len(q) : q[k] = r})

SameMultiset(a, b) ==
    /\ Len(a) = Len(b)
    /\ \A r \in Range(a) \cup Range(b) : Count(a, r) = Count(b, r)

\* The records of the input as it was when the call began.
InputExisted(p) == InputName(p) \in DOMAIN dir0

InputRecords(p) == Records(data0[dir0[InputName(p)]])

OutputRecords(p) == Records(Content(OutputName(p)))

\* The destination is as it was before the call: absent, or the same
\* name with the same contents.
OutputUntouched(p) ==
    IF OutputName(p) \in DOMAIN dir0
    THEN Exists(OutputName(p)) /\ Content(OutputName(p)) = data0[dir0[OutputName(p)]]
    ELSE ~Exists(OutputName(p))

\* C1: after sort_file returns normally with a positive chunk_size, the
\* records of the output file are in non-decreasing lexicographic order.
C1_OutputSorted ==
    \A p \in Procs :
        (pc[p] = "done" /\ chunk_size[p] > 0) => IsSorted(OutputRecords(p))

C1_Witness ==
    \E p \in Procs :
        /\ pc[p] = "done" /\ chunk_size[p] > 0
        /\ Len(temp_files[p]) >= 2
        /\ ~IsSorted(InputRecords(p))
        /\ Len(OutputRecords(p)) >= 3

\* C2: after sort_file returns normally with a positive chunk_size, the
\* output has as many records as the input and every record value occurs
\* in it as often as in the input.
C2_OutputIsPermutation ==
    \A p \in Procs :
        (pc[p] = "done" /\ chunk_size[p] > 0) =>
            SameMultiset(InputRecords(p), OutputRecords(p))

C2_Witness ==
    \E p \in Procs :
        /\ pc[p] = "done" /\ chunk_size[p] = 2
        /\ Len(temp_files[p]) = 2
        /\ Len(InputRecords(p)) = 3
        /\ \E k \in 1 .. 2 : InputRecords(p)[k] = InputRecords(p)[k + 1]
        /\ InputRecords(p) # OutputRecords(p)

\* C3: when sort_file has returned normally, none of the temporary files
\* it created exists any more and the working directory holds no
\* temporary file.
C3_NoTempAfterDone ==
    \A p \in Procs :
        pc[p] = "done" =>
            /\ \A k \in 1 .. Len(temp_files[p]) : ~Exists(temp_files[p][k])
            /\ TempFilesOnDisk = {}

C3_Witness ==
    \E p \in Procs :
        pc[p] = "done" /\ Len(temp_files[p]) >= 3 /\ TempFilesOnDisk = {}

\* C4: after a storage error in Chunking or Merging has left sort_file,
\* no temporary file remains.
C4_NoTempAfterFailure ==
    \A p \in Procs :
        (pc[p] = "failed" /\ err[p] = "OSError" /\ chunk_size[p] > 0) =>
            TempFilesOnDisk = {}

\* C5: when sort_file has failed, the destination is absent or holds its
\* previous contents; it never holds a partial result.
C5_OutputUntouchedOnFailure ==
    \A p \in Procs :
        (pc[p] = "failed" /\ chunk_size[p] > 0) => OutputUntouched(p)

\* C6: with chunk_size <= 0 the call is rejected before any I/O: the
\* input is not opened, no temporary file is created, the destination is
\* not written and the call does not complete normally.
C6_NonPositiveRejected ==
    \A p \in Procs :
        chunk_size[p] <= 0 =>
            /\ f[p] = NoHandle
            /\ chunk[p] = <<>>
            /\ temp_files[p] = <<>>
            /\ TempFilesOnDisk = {}
            /\ OutputUntouched(p)
            /\ pc[p] # "done"

\* C7: when the input cannot be opened, sort_file fails with
\* FileNotFoundError before any temporary file is created; the directory
\* and every file's contents are as before the call.
C7_SourceNotFound ==
    \A p \in Procs :
        ~InputExisted(p) =>
            /\ pc[p] \in {"idle", "open_input", "failed"}
            /\ pc[p] = "failed" => err[p] = "FileNotFoundError"
            /\ temp_files[p] = <<>>
            /\ dir = dir0
            /\ data = data0

C7_Witness ==
    \E p \in Procs :
        /\ ~InputExisted(p)
        /\ pc[p] = "failed" /\ err[p] = "FileNotFoundError"
        /\ Exists(OutputName(p))

\* C8: on an input with zero records no chunk is ever created, the call
\* fails only if the environment raises a storage error, and when it
\* returns the output exists and is empty.
C8_EmptyInput ==
    \A p \in Procs :
        (InputExisted(p) /\ InputRecords(p) = <<>>) =>
            /\ temp_files[p] = <<>>
            /\ TempFilesOnDisk = {}
            /\ pc[p] = "failed" => err[p] = "OSError"
            /\ pc[p] = "done" =>
                  (Exists(OutputName(p)) /\ Content(OutputName(p)) = <<>>)

C8_Witness ==
    \E p \in Procs :
        /\ InputExisted(p) /\ InputRecords(p) = <<>>
        /\ pc[p] = "done"
        /\ OutputName(p) \in DOMAIN dir0
        /\ Content(OutputName(p)) = <<>>

\* C9: after Chunking with a positive chunk_size, every chunk but the last
\* holds exactly chunk_size records, the last holds between 1 and
\* chunk_size, every chunk is sorted ascending, and the chunk ids are
\* 0, 1, 2, ... in creation order (unique, strictly increasing).
C9_ChunkShape ==
    \A p \in Procs :
        (pc[p] = "open_chunks" /\ i[p] = 0 /\ chunk_size[p] > 0) =>
            \A k \in 1 .. Len(temp_files[p]) :
                /\ temp_files[p][k] = TempName(k - 1)
                /\ Exists(temp_files[p][k])
                /\ LET recs == Records(Content(temp_files[p][k]))
                   IN  /\ IsSorted(recs)
                       /\ k < Len(temp_files[p]) => Len(recs) = chunk_size[p]
                       /\ Len(recs) >= 1
                       /\ Len(recs) <= chunk_size[p]

C9_Witness ==
    \E p \in Procs :
        /\ pc[p] = "open_chunks" /\ i[p] = 0 /\ chunk_size[p] = 2
        /\ Len(temp_files[p]) = 2
        /\ Len(Records(Content(temp_files[p][2]))) = 1
        /\ ~IsSorted(InputRecords(p))

\* C10: two calls running at the same time do not interfere: each call
\* that returns has written the sorted permutation of its own input, and
\* no call fails.
C10_NoInterference ==
    \A p \in Procs :
        /\ pc[p] = "done" => OutputRecords(p) = sort(InputRecords(p))
        /\ pc[p] # "failed"

\* The limit of simultaneously open storage handles of the design (the
\* class has no such parameter).
HandleLimit == 2

MergePhase == {"prime", "open_output", "merge"}

\* C11 as stated: the chunk read handles open at the same time never
\* exceed the configured handle limit.
C11_HandlesWithinLimit ==
    \A p \in Procs : chunk_size[p] > 0 => Len(files[p]) <= HandleLimit

\* C11 as amended: the merge is one k-way pass; it never holds more than k
\* chunk read handles, and from the priming of the heap to the end of the
\* while loop it holds all k of them at the same time, whatever k is.
C11_AllChunksOpenAtOnce ==
    \A p \in Procs :
        /\ Len(files[p]) <= Len(temp_files[p])
        /\ pc[p] \in MergePhase => Len(files[p]) = Len(temp_files[p])

C11_Witness ==
    \E p \in Procs :
        /\ pc[p] = "merge" /\ chunk_size[p] > 0
        /\ Len(files[p]) > HandleLimit /\ heap[p] # {}

\* C12: with a non-empty input of at most chunk_size records, at most one
\* chunk is ever created and exactly one once Chunking is over, the heap
\* never holds more than one entry, and the output is the sorted input.
C12_SingleChunk ==
    \A p \in Procs :
        (InputExisted(p) /\ Len(InputRecords(p)) >= 1
                         /\ chunk_size[p] >= Len(InputRecords(p))) =>
            /\ Len(temp_files[p]) <= 1
            /\ pc[p] \in MergePhase \cup {"open_chunks", "remove", "done"} =>
                  Len(temp_files[p]) = 1
            /\ Cardinality(heap[p]) <= 1
            /\ pc[p] = "done" => OutputRecords(p) = sort(InputRecords(p))

C12_Witness ==
    \E p \in Procs :
        /\ InputExisted(p) /\ pc[p] = "done"
        /\ Len(InputRecords(p)) = 3 /\ chunk_size[p] = 3
        /\ ~IsSorted(InputRecords(p))
        /\ OutputRecords(p) = sort(InputRecords(p))

\* The records file idx of the merge has not yet handed to the output:
\* its heap entry and the lines after its read position.
Unwritten(p, idx) ==
    {e[1] : e \in {o \in heap[p] : o[2] = idx}}
    \cup Range(ReadAll(data[files[p][idx + 1].ino], files[p][idx + 1].pos))

\* C13: the record the merge writes next never has an equal record
\* waiting in a chunk with a smaller chunk id: equal records leave in
\* ascending chunk id order.
C13_TieBreakByChunkId ==
    \A p \in Procs :
        (pc[p] = "merge" /\ heap[p] # {}) =>
            LET e == HeapMin(heap[p])
            IN  \A idx \in 0 .. e[2] - 1 : e[1] \notin Unwritten(p, idx)

C13_Witness ==
    \E p \in Procs :
        /\ pc[p] = "merge"
        /\ \E a \in heap[p], b \in heap[p] : a[1] = b[1] /\ a[2] < b[2]
                                             /\ HeapMin(heap[p]) = a

\* File idx of the merge is exhausted: read to its end, no entry in the heap.
Exhausted(p, idx) ==
    /\ files[p][idx + 1].pos >= Len(data[files[p][idx + 1].ino])
    /\ \A e \in heap[p] : e[2] # idx

\* C14 as stated: in the merge loop an exhausted chunk has no open cursor
\* and no temporary file any more.
C14_ReleasedOnExhaustion ==
    \A p \in Procs :
        (pc[p] = "merge" /\ chunk_size[p] > 0) =>
            \A idx \in 0 .. Len(files[p]) - 1 :
                Exhausted(p, idx) => ~Exists(temp_files[p][idx + 1])

\* C14 as amended: in the merge loop every chunk, exhausted or not, keeps
\* its open cursor and its temporary file; the cursors are closed after
\* the loop, and when sort_file has returned no temporary file is left.
C14_ReleasedAfterLoop ==
    \A p \in Procs :
        /\ pc[p] = "merge" =>
              /\ Len(files[p]) = Len(temp_files[p])
              /\ \A k \in 1 .. Len(temp_files[p]) : Exists(temp_files[p][k])
        /\ pc[p] \in {"remove", "done"} => files[p] = <<>>
        /\ pc[p] = "done" =>
              \A k \in 1 .. Len(temp_files[p]) : ~Exists(temp_files[p][k])

C14_Witness ==
    \E p \in Procs :
        /\ pc[p] = "merge" /\ heap[p] # {} /\ chunk_size[p] > 0
        /\ \E idx \in 0 .. Len(files[p]) - 1 :
              Exhausted(p, idx) /\ Exists(temp_files[p][idx + 1])

\* C15: with a positive chunk_size the buffer never holds more than
\* chunk_size records; the heap never holds more than k entries, k the
\* number of chunks, and never two entries of one chunk.
C15_BoundedMemory ==
    \A p \in Procs :
        /\ chunk_size[p] > 0 => Len(chunk[p]) <= chunk_size[p]
        /\ Cardinality(heap[p]) <= Len(temp_files[p])
        /\ \A a \in heap[p], b \in heap[p] : a[2] = b[2] => a = b
        /\ \A a \in heap[p] : a[2] \in 0 .. Len(temp_files[p]) - 1

C15_Witness ==
    \E p \in Procs :
        /\ pc[p] = "merge" /\ chunk_size[p] = 1
        /\ Len(temp_files[p]) >= 3
        /\ Cardinality(heap[p]) = Len(temp_files[p])

\* The transitions of the state machine of one sort operation.
PhaseSteps ==
    {<<"Idle", "Chunking">>, <<"Chunking", "Merging">>, <<"Merging", "Done">>,
     <<"Chunking", "Failed">>, <<"Merging", "Failed">>}

\* The records of the chunk files k .. Len(temp_files[p]), in that order.
RECURSIVE ChunkRecordsFrom(_, _)
ChunkRecordsFrom(p, k) ==
    IF k > Len(temp_files[p]) THEN <<>>
    ELSE Records(Content(temp_files[p][k])) \o ChunkRecordsFrom(p, k + 1)

\* Before Merging no chunk is open for reading, the heap is empty and the
\* destination is untouched; in Merging, up to the end of the while loop,
\* the input is closed and the chunk files hold every input record.
PhaseSeparation(p) ==
    /\ State(p) \in {"Idle", "Chunking"} =>
          /\ files[p] = <<>> /\ heap[p] = {}
          /\ out[p] = NoHandle /\ OutputUntouched(p)
    /\ pc[p] \in MergePhase \cup {"open_chunks"} =>
          /\ f[p] = NoHandle
          /\ InputExisted(p)
          /\ SameMultiset(InputRecords(p), ChunkRecordsFrom(p, 1))

\* C16: a sort operation moves only along Idle -> Chunking -> Merging ->
\* Done, or to Failed from Chunking or Merging; Done and Failed are never
\* left; no chunk is opened for reading and nothing is written to the
\* output before the whole input is consumed and every chunk, the final
\* short one included, is flushed.
C16_PhaseOrder ==
    /\ [][\A p \in Procs :
             State(p)' = State(p) \/ <<State(p), State(p)'>> \in PhaseSteps]_vars
    /\ [](\A p \in Procs : PhaseSeparation(p))

C16_Witness ==
    \E p \in Procs :
        /\ pc[p] = "merge" /\ chunk_size[p] = 2
        /\ Len(InputRecords(p)) = 3 /\ Len(temp_files[p]) = 2
        /\ Len(OutputRecords(p)) >= 1

\* ------------------------------------------- a directory that is not clean
\* One call in a working directory that already holds a file named
\* temp_0.txt (inode 2), such as the one a failed earlier call leaves.
InitLeftover ==
    /\ \E inp \in [{1} -> InputOpts(MaxInputLen)], outp \in [{1} -> OutputOpts] :
          /\ dir = (TempName(0) :> 2) @@ InitDir({1}, inp, outp)
          /\ data = (2 :> OldOutput) @@ InitData({1}, inp, outp)
    /\ dir0 = dir
    /\ data0 = data
    /\ InitLocals({1}, ChunkSizes)
    /\ aut = NoAut

SpecLeftover == InitLeftover /\ [][Next]_vars

\* C17: the storage unit a flush is about to write is new: its name was
\* not used by an earlier flush of this call and no file of that name
\* exists in the working directory.
C17_FlushWritesNewUnit ==
    \A p \in Procs :
        (pc[p] \in {"flush", "final_flush"} /\ chunk_size[p] > 0) =>
            /\ TempName(file_counter[p]) \notin Range(temp_files[p])
            /\ ~Exists(TempName(file_counter[p]))

\* ------------------------------------------------ a run without faults
\* One call in which the environment raises no storage error; the call is
\* sequential code, so a step that can be taken is taken.
NextNoFault == NextConc

SpecFair == Init /\ [][NextNoFault]_vars /\ WF_vars(NextNoFault)

\* The records of the files idx+1 .. k of the merge not yet read.
RECURSIVE UnreadFrom(_, _)
UnreadFrom(p, idx) ==
    IF idx >= Len(files[p]) THEN 0
    ELSE Len(ReadAll(data[files[p][idx + 1].ino], files[p][idx + 1].pos))
         + UnreadFrom(p, idx + 1)

\* N, the number of records stored in the chunks.
StoredRecords(p) == Len(ChunkRecordsFrom(p, 1))

\* In the merge loop every stored record is in exactly one place: written
\* to the output, in the heap, or not yet read.
SinglePass(p) ==
    pc[p] = "merge" =>
        Len(OutputRecords(p)) + Cardinality(heap[p]) + UnreadFrom(p, 0)
            = StoredRecords(p)

\* An iteration of the merge loop: it needs a non-empty heap, writes
\* exactly one record and takes exactly one entry from the heap, putting
\* back at most one.
OneRecordPerIteration(p) ==
    (pc[p] = "merge" /\ pc'[p] = "merge" /\ vars' # vars) =>
        /\ heap[p] # {}
        /\ Len(OutputRecords(p))' = Len(OutputRecords(p)) + 1
        /\ Cardinality(heap'[p]) \in {Cardinality(heap[p]) - 1, Cardinality(heap[p])}
        /\ UnreadFrom(p, 0)' \in {UnreadFrom(p, 0) - 1, UnreadFrom(p, 0)}

\* C18: without storage errors the merge loop terminates; every
\* iteration pops one entry and writes one record, every stored record is
\* read once, and the loop is left with an empty heap after exactly N
\* records are written.
C18_MergeTerminates ==
    /\ [][\A p \in Procs : OneRecordPerIteration(p)]_vars
    /\ [](\A p \in Procs : SinglePass(p))
    /\ (pc[1] = "merge") ~>
          (pc[1] = "remove" /\ heap[1] = {}
                            /\ Len(OutputRecords(1)) = Len(InputRecords(1)))

C18_Witness ==
    \E p \in Procs :
        /\ pc[p] = "remove" /\ i[p] = 0
        /\ Len(temp_files[p]) >= 2
        /\ Len(OutputRecords(p)) = 4
        /\ Len(ChunkRecordsFrom(p, 1)) = 4

\* ================================================== automata of src/1.py
\* ----------------------------------------------------------------- bounds
MaxStrLen == 3
MaxTrans == 2

\* The strings over cs of length at most n.
StringsUpTo(cs, n) == UNION {[1 .. k -> cs] : k \in 0 .. n}

BoolStr(b) == IF b THEN "True" ELSE "False"

\* -------------------------------------------------------------------- DFA
\* Example 1 of the module: the strings that end in "ab".
ExampleDFA ==
    [states |-> {"q0", "q1", "q2"},
     alphabet |-> {"a", "b"},
     transition |-> (<<"q0", "a">> :> "q1") @@ (<<"q0", "b">> :> "q0")
                 @@ (<<"q1", "a">> :> "q1") @@ (<<"q1", "b">> :> "q2")
                 @@ (<<"q2", "a">> :> "q1") @@ (<<"q2", "b">> :> "q0"),
     start_state |-> "q0",
     accept_states |-> {"q2"}]

\* The arguments DFA(...) is constructed with: every automaton on the
\* states q0, q1 with a partial transition table on {a, b} and an alphabet
\* that may be smaller than the table's characters.
SmallDFAs ==
    {[states |-> {"q0", "q1"}, alphabet |-> al, transition |-> tr,
      start_state |-> st, accept_states |-> ac] :
        al \in {{"a", "b"}, {"a"}},
        tr \in UNION {[D -> {"q0", "q1"}] : D \in SUBSET ({"q0", "q1"} \X {"a", "b"})},
        st \in {"q0", "q1"},
        ac \in SUBSET {"q0", "q1"}}

\* The alphabet test left out.
InAlphabet_Skip(D, ch) == TRUE

\* if ch not in self.alphabet: return False
InAlphabet(D, ch) == ch \in D.alphabet

\* The loop of DFA.accepts from state `current` on the rest of the string.
RECURSIVE DFARun(_, _, _)
DFARun(D, current, s) ==
    IF s = <<>> THEN current \in D.accept_states
    ELSE IF ~InAlphabet(D, Head(s)) THEN FALSE
    ELSE IF <<current, Head(s)>> \notin DOMAIN D.transition THEN FALSE
    ELSE DFARun(D, D.transition[<<current, Head(s)>>], Tail(s))

\* DFA.accepts(s)
DFAAccepts(D, s) == DFARun(D, D.start_state, s)

InitDFA ==
    /\ dir = <<>> /\ data = <<>> /\ dir0 = <<>> /\ data0 = <<>>
    /\ InitLocals({}, {1})
    /\ \E D \in SmallDFAs \cup {ExampleDFA} :
          aut = [kind |-> "dfa", m |-> D, s |-> <<>>, phase |-> "built", result |-> "none"]

\* dfa.accepts(s) is called and returns.
DFA_accepts ==
    /\ aut.kind = "dfa" /\ aut.phase = "built"
    /\ \E s \in StringsUpTo({"a", "b", "c"}, MaxStrLen) :
          aut' = [aut EXCEPT !.s = s, !.phase = "returned",
                             !.result = BoolStr(DFAAccepts(aut.m, s))]
    /\ UNCHANGED sortvars

NextDFA == DFA_accepts

SpecDFA == InitDFA /\ [][NextDFA]_vars

\* -------------------------------------------------------------------- NFA
\* None as a symbol: the epsilon move.
Eps == "eps"

NFAStates == 0 .. 2

\* self.transitions.get(st, {}).get(sym, set())
Delta(A, st, sym) == {t[3] : t \in {x \in A.transitions : x[1] = st /\ x[2] = sym}}

\* SimpleNFA._epsilon_closure(states): closure.add is spelt closuare.add,
\* so the first epsilon move that leaves the given set raises NameError;
\* otherwise the set itself is returned.
EpsilonClosure(A, states) ==
    IF \E st \in states : \E nxt \in Delta(A, st, Eps) : nxt \notin states
    THEN [raised |-> TRUE, closure |-> {}]
    ELSE [raised |-> FALSE, closure |-> states]

\* The loop of SimpleNFA.accepts from the set current_states.
RECURSIVE NFARun(_, _, _)
NFARun(A, current_states, s) ==
    IF s = <<>>
    THEN BoolStr(\E st \in current_states : st \in A.accept_states)
    ELSE LET next_states == UNION {Delta(A, st, Head(s)) : st \in current_states}
             c == EpsilonClosure(A, next_states)
         IN  IF c.raised THEN "NameError"
             ELSE IF c.closure = {} THEN "False"
             ELSE NFARun(A, c.closure, Tail(s))

\* SimpleNFA.accepts(s); start_state None is -1.
NFAAccepts(A, s) ==
    IF A.start_state = -1 THEN "False"
    ELSE LET c == EpsilonClosure(A, {A.start_state})
         IN  IF c.raised THEN "NameError" ELSE NFARun(A, c.closure, s)

\* nfa = SimpleNFA()
InitNFA ==
    /\ dir = <<>> /\ data = <<>> /\ dir0 = <<>> /\ data0 = <<>>
    /\ InitLocals({}, {1})
    /\ aut = [kind |-> "nfa",
              m |-> [states |-> {}, start_state |-> -1, accept_states |-> {},
                     transitions |-> {}],
              s |-> <<>>, phase |-> "built", result |-> "none"]

\* nfa.add_state(state, is_start, is_accept)
NFA_add_state ==
    /\ aut.kind = "nfa" /\ aut.phase = "built"
    /\ \E state \in NFAStates, is_start \in BOOLEAN, is_accept \in BOOLEAN :
          aut' = [aut EXCEPT
                     !.m.states = @ \cup {state},
                     !.m.start_state = IF is_start THEN state ELSE @,
                     !.m.accept_states = IF is_accept THEN @ \cup {state} ELSE @]
    /\ UNCHANGED sortvars

\* nfa.add_transition(from_state, symbol, to_state)
NFA_add_transition ==
    /\ aut.kind = "nfa" /\ aut.phase = "built"
    /\ Cardinality(aut.m.transitions) < MaxTrans
    /\ \E from_state \in NFAStates, symbol \in {Eps, "a", "b"}, to_state \in NFAStates :
          aut' = [aut EXCEPT !.m.transitions = @ \cup {<<from_state, symbol, to_state>>}]
    /\ UNCHANGED sortvars

\* nfa.accepts(s) is called and returns or raises.
NFA_accepts ==
    /\ aut.kind = "nfa" /\ aut.phase = "built"
    /\ \E s \in StringsUpTo({"a", "b"}, MaxStrLen - 1) :
          aut' = [aut EXCEPT !.s = s, !.phase = "returned",
                             !.result = NFAAccepts(aut.m, s)]
    /\ UNCHANGED sortvars

NextNFA ==
    \/ NFA_add_state
    \/ NFA_add_transition
    \/ NFA_accepts

SpecNFA == InitNFA /\ [][NextNFA]_vars

\* ------------------------------------------------- properties of automata
\* The states reachable from S by epsilon moves only.
RECURSIVE EpsReach(_, _)
EpsReach(A, S) ==
    LET N == S \cup UNION {Delta(A, st, Eps) : st \in S}
    IN  IF N = S THEN S ELSE EpsReach(A, N)

\* The states some path from a state of S reaches while spelling s,
\* epsilon moves skipped.
RECURSIVE PathEnds(_, _, _)
PathEnds(A, S, s) ==
    IF s = <<>> THEN EpsReach(A, S)
    ELSE PathEnds(A, UNION {Delta(A, st, Head(s)) : st \in EpsReach(A, S)}, Tail(s))

\* Some path from the start state to an accept state spells s.
HasAcceptingPath(A, s) ==
    /\ A.start_state # -1
    /\ PathEnds(A, {A.start_state}, s) \cap A.accept_states # {}

\* C19: SimpleNFA.accepts(s) returns True exactly when some path from the
\* start state to an accept state spells s, epsilon moves skipped, and
\* False otherwise.
C19_NFAAcceptsByPath ==
    (aut.kind = "nfa" /\ aut.phase = "returned") =>
        aut.result = BoolStr(HasAcceptingPath(aut.m, aut.s))

\* The run of D on s exists: a state for every prefix of s, from the start
\* state along defined transitions.
HasAcceptingRun(D, s) ==
    \E run \in [0 .. Len(s) -> D.states] :
        /\ run[0] = D.start_state
        /\ \A k \in 1 .. Len(s) :
              /\ <<run[k - 1], s[k]>> \in DOMAIN D.transition
              /\ D.transition[<<run[k - 1], s[k]>>] = run[k]
        /\ run[Len(s)] \in D.accept_states

EndsInAB(s) ==
    /\ \A k \in 1 .. Len(s) : s[k] \in {"a", "b"}
    /\ Len(s) >= 2 /\ s[Len(s) - 1] = "a" /\ s[Len(s)] = "b"

\* C20: DFA.accepts(s) returns True exactly when every character of s is
\* in the alphabet, every step has a defined transition and the state
\* reached is an accept state; the example automaton accepts exactly the
\* strings over {a, b} that end in "ab".
C20_DFAAccepts ==
    (aut.kind = "dfa" /\ aut.phase = "returned") =>
        /\ aut.result = BoolStr((\A k \in 1 .. Len(aut.s) : aut.s[k] \in aut.m.alphabet)
                                /\ HasAcceptingRun(aut.m, aut.s))
        /\ aut.m = ExampleDFA => aut.result = BoolStr(EndsInAB(aut.s))

C20_Witness ==
    /\ aut.kind = "dfa" /\ aut.phase = "returned"
    /\ aut.m = ExampleDFA
    /\ aut.s = <<"b", "a", "b">>
    /\ aut.result = "True"

====
